---- MODULE Spec2Model ----
(***************************************************************************)
(* Model of CourseValidationView (cms/djangoapps/contentstore/api/views/   *)
(* course_validation.py): one GET request against a course store.  The     *)
(* store content and the request parameters are drawn in Init; the handler *)
(* is executed statement by statement.                                     *)
(***************************************************************************)
EXTENDS Integers, Sequences, FiniteSets, TLC

\* ------------------------------------------------------------------ bounds
MaxTime == 3        \* datetimes are 1..MaxTime; MaxTime is the default start
MaxChildren == 2    \* children per section (tree specification)
MaxRubric == 1      \* rubric assessments per open-response component

Times == 1..MaxTime

\* ------------------------------------------------------------ value types
\* an optional datetime attribute (course.end, assignment.due): None or a time
NoneDt == [isNone |-> TRUE, t |-> 0]
Dt(t) == [isNone |-> FALSE, t |-> t]

\* a timestamp attribute of an open-response component: None, or a string
\* that dateutil either parses ("iso") or rejects ("bad")
NoneTs == [kind |-> "none", t |-> 0]
BadTs == [kind |-> "bad", t |-> 0]
IsoTs(t) == [kind |-> "iso", t |-> t]
TsVals == {NoneTs, BadTs, IsoTs(1), IsoTs(MaxTime)}

\* Python truthiness of a timestamp attribute (None is falsy)
TsTruthy(ts) == ts.kind # "none"

\* dateutil.parser.parse(s).replace(tzinfo=UTC): raises on a malformed
\* string, otherwise the wall-clock time read as UTC
ParseTsMissingRaise(ts) == [raised |-> FALSE, t |-> ts.t]
ParseTs(ts) ==
    IF ts.kind = "iso" THEN [raised |-> FALSE, t |-> ts.t]
    ELSE [raised |-> TRUE, t |-> 0]

SectionIds == {"s1", "s2"}
AssignmentIds == {"a1", "a2"}
Categories == {"dates", "assignments", "grades", "certificates", "updates"}
ParamNames == Categories \cup {"all", "graded_only"}
ParamVals == {"absent", "true", "false"}

\* all sequences over S of length at most n
RECURSIVE SeqsUpTo(_, _)
SeqsUpTo(S, n) ==
    IF n = 0 THEN {<<>>}
    ELSE LET shorter == SeqsUpTo(S, n - 1)
         IN shorter \cup {Append(s, x) : s \in {q \in shorter : Len(q) = n - 1}, x \in S}

\* ---------------------------------------------------------------- state
VARIABLES
    request,      \* query parameters of the GET request
    store,        \* the course store's content for course_key
    pc,           \* position of the handler
    bulk,         \* [held, acquired, released]: the bulk_operations scope
    fetches,      \* [inside, outside]: store fetches made while held / not held
    depth,        \* depth passed to get_course (-1 before the call)
    course,       \* local variable course: "unset", "None" or "obj"
    response,     \* [keys, assignments]: the response dict being built
    error,        \* exception in flight: "none", "AttributeError", "ValueError"
    status        \* 0 until the handler ends, then 200 or 500

vars == <<request, store, pc, bulk, fetches, depth, course, response, error, status>>

\* --------------------------------------------------------- request flags
\* .utils.get_bool_param(request, name, default)
get_bool_param(req, name, default) ==
    default \/ req[name] = "true"

all_requested(req) == get_bool_param(req, "all", FALSE)

\* the guard of each category in get()
RequestedIgnoringAll(req, cat) == get_bool_param(req, cat, FALSE)
Requested(req, cat) == get_bool_param(req, cat, all_requested(req))

required_course_depth(req) ==
    IF get_bool_param(req, "assignments", all_requested(req)) THEN 2 ELSE 0

\* --------------------------------------------------------- course checks
has_start_date(st) == ~st.start_date_is_still_default

dates_validation(st) ==
    [has_start_date |-> has_start_date(st), has_end_date |-> ~st.end.isNone]


\* ------------------------------------------------------ _get_assignments
\* [section.children for section in secs], concatenated in order
RECURSIVE ChildrenOf(_, _)
ChildrenOf(st, secs) ==
    IF secs = <<>> THEN <<>>
    ELSE st.sections[Head(secs)].children \o ChildrenOf(st, Tail(secs))

SectionVisible(st, sid) ==
    ~st.sections[sid].visible_to_staff_only /\ ~st.sections[sid].hide_from_toc

AssignmentVisible(st, aid) == ~st.assignments[aid].visible_to_staff_only

\* the pair (assignments, visible_assignments), as sequences of usage keys
get_assignments_all_visible(st) ==
    LET assignments == ChildrenOf(st, st.children)
    IN  [assignments |-> assignments, visible_assignments |-> assignments]
get_assignments(st) ==
    LET assignments == ChildrenOf(st, st.children)
        visible_sections == SelectSeq(st.children, LAMBDA sid : SectionVisible(st, sid))
        assignments_in_visible_sections == ChildrenOf(st, visible_sections)
        visible_assignments ==
            SelectSeq(assignments_in_visible_sections, LAMBDA aid : AssignmentVisible(st, aid))
    IN  [assignments |-> assignments, visible_assignments |-> visible_assignments]

\* ----------------------------------------------------- _get_open_responses
RECURSIVE Concat(_)
Concat(seqs) == IF seqs = <<>> THEN <<>> ELSE Head(seqs) \o Concat(Tail(seqs))

\* the components under the assignment's verticals whose usage key has
\* 'type@openassessment'
get_open_responses(a) ==
    SelectSeq(Concat(a.verticals), LAMBDA c : c.isOra)

\* ------------------------------------ _has_ora_before_start / _after_end
RECURSIVE RubricFields(_)
RubricFields(ras) ==
    IF ras = <<>> THEN <<>>
    ELSE <<Head(ras).start, Head(ras).due>> \o RubricFields(Tail(ras))

\* the timestamp attributes of one component in the order the loop body
\* tests them
OraFields(ora) ==
    <<ora.submission_start, ora.submission_due>> \o RubricFields(ora.rubric_assessments)

RECURSIVE AllFields(_)
AllFields(oras) ==
    IF oras = <<>> THEN <<>> ELSE OraFields(Head(oras)) \o AllFields(Tail(oras))

\* the loops over oras and their attributes: "True" at the first parsed
\* timestamp beyond the boundary, "Raise" at the first one that fails to
\* parse, "End" when the loops run out
RECURSIVE ScanFields(_, _, _)
ScanFields(fields, before, bound) ==
    IF fields = <<>> THEN "End"
    ELSE LET ts == Head(fields)
             p == ParseTs(ts)
         IN  IF ~TsTruthy(ts) THEN ScanFields(Tail(fields), before, bound)
             ELSE IF p.raised THEN "Raise"
             ELSE IF (before /\ p.t < bound) \/ (~before /\ p.t > bound) THEN "True"
             ELSE ScanFields(Tail(fields), before, bound)

GradedFilter(oras, graded_only) ==
    IF graded_only THEN SelectSeq(oras, LAMBDA o : o.graded) ELSE oras

\* the value returned: True, the tuple (False, False), or an exception
has_ora_before_start(a, start, graded_only) ==
    LET r == ScanFields(AllFields(GradedFilter(get_open_responses(a), graded_only)),
                        TRUE, start)
    IN  IF r = "End" THEN "FalseFalse" ELSE r

\* the value returned: True, False, or an exception
has_ora_after_end(a, end, graded_only) ==
    LET r == ScanFields(AllFields(GradedFilter(get_open_responses(a), graded_only)),
                        FALSE, end)
    IN  IF r = "End" THEN "False" ELSE r

\* Python truthiness of those return values: a non-empty tuple is true
Truthy(v) == v \in {"True", "FalseFalse"}

\* ------------------------------------------------ _assignments_validation
ItemOf(st, aid) == [id |-> aid, display_name |-> st.assignments[aid].display_name]

\* (a.due and a.due < course.start) or self._has_ora_before_start(...)
BeforeCond(st, a, graded_only) ==
    IF ~a.due.isNone /\ a.due.t < st.start.t THEN "True"
    ELSE has_ora_before_start(a, st.start.t, graded_only)

\* (a.due and a.due > course.end) or self._has_ora_after_end(...)
AfterCond(st, a, graded_only) ==
    IF ~a.due.isNone /\ a.due.t > st.end.t THEN "True"
    ELSE has_ora_after_end(a, st.end.t, graded_only)

Cond(st, a, before, graded_only) ==
    IF before THEN BeforeCond(st, a, graded_only) ELSE AfterCond(st, a, graded_only)

\* whether evaluating the condition for a calls _get_open_responses
CallsOra(st, a, before) ==
    IF before THEN ~(~a.due.isNone /\ a.due.t < st.start.t)
    ELSE ~(~a.due.isNone /\ a.due.t > st.end.t)

\* the store fetches of one _get_open_responses call
OraFetches(a) ==
    (IF a.verticals # <<>> THEN {"units"} ELSE {})
        \cup (IF get_open_responses(a) # <<>> THEN {"components"} ELSE {})

\* one list comprehension over visible_assignments: the items kept, or an
\* exception at the first assignment whose condition raises
RECURSIVE ListComp(_, _, _, _)
ListComp(st, visible, before, graded_only) ==
    IF visible = <<>> THEN [raised |-> FALSE, items |-> <<>>, fetched |-> {}]
    ELSE LET aid == Head(visible)
             a == st.assignments[aid]
             v == Cond(st, a, before, graded_only)
             f == IF CallsOra(st, a, before) THEN OraFetches(a) ELSE {}
         IN  IF v = "Raise" THEN [raised |-> TRUE, items |-> <<>>, fetched |-> f]
             ELSE LET rest == ListComp(st, Tail(visible), before, graded_only)
                  IN  [raised |-> rest.raised,
                       items |-> IF rest.raised THEN <<>>
                                 ELSE (IF Truthy(v) THEN <<ItemOf(st, aid)>> ELSE <<>>)
                                          \o rest.items,
                       fetched |-> f \cup rest.fetched]

NoList == [raised |-> FALSE, items |-> <<>>, fetched |-> {}]

\* "... if self._has_start_date(course) else []"
BeforeListUnguarded(st, visible, graded_only) == ListComp(st, visible, TRUE, graded_only)
BeforeList(st, visible, graded_only) ==
    IF has_start_date(st) THEN ListComp(st, visible, TRUE, graded_only) ELSE NoList

\* "... if course.end else []"
AfterList(st, visible, graded_only) ==
    IF ~st.end.isNone THEN ListComp(st, visible, FALSE, graded_only) ELSE NoList

\* list.remove(x): drops the first element equal to x
RECURSIVE ListRemove(_, _)
ListRemove(seq, x) ==
    IF seq = <<>> THEN <<>>
    ELSE IF Head(seq) = x THEN Tail(seq)
    ELSE <<Head(seq)>> \o ListRemove(Tail(seq), x)

\* "for potential_duplicate in after: if same id: after.remove(...)": the
\* list iterator keeps its index while the list shrinks under it
RECURSIVE InnerLoop(_, _, _)
InnerLoop(item, after, i) ==
    IF i > Len(after) THEN after
    ELSE IF item.id = after[i].id
         THEN InnerLoop(item, ListRemove(after, after[i]), i + 1)
         ELSE InnerLoop(item, after, i + 1)

\* the de-dupe loops; returns assignments_with_dates_after_end
RECURSIVE Dedupe(_, _)
DedupeFirstOnly(before, after) ==
    IF before = <<>> THEN after ELSE InnerLoop(Head(before), after, 1)
Dedupe(before, after) ==
    IF before = <<>> THEN after
    ELSE Dedupe(Tail(before), InnerLoop(Head(before), after, 1))

NoAssignments ==
    [total_number |-> 0, total_visible |-> 0,
     assignments_with_dates_before_start |-> <<>>,
     assignments_with_dates_after_end |-> <<>>]

\* the statements of _assignments_validation in order; an exception in a
\* comprehension ends the method there
assignments_validation(st, req) ==
    LET ga == get_assignments(st)
        vis == ga.visible_assignments
        graded_only == get_bool_param(req, "graded_only", FALSE)
        treeFetches == (IF st.children # <<>> THEN {"sections"} ELSE {})
                           \cup (IF ga.assignments # <<>> THEN {"assignments"} ELSE {})
        b1 == BeforeList(st, vis, FALSE)
        a1 == AfterList(st, vis, FALSE)
        b2 == BeforeList(st, vis, TRUE)
        a2 == AfterList(st, vis, TRUE)
        before == IF graded_only THEN b2.items ELSE b1.items
        after == IF graded_only THEN a2.items ELSE a1.items
        Raise(f) == [raised |-> TRUE, result |-> NoAssignments, fetched |-> treeFetches \cup f]
    IN  IF b1.raised THEN Raise(b1.fetched)
        ELSE IF a1.raised THEN Raise(b1.fetched \cup a1.fetched)
        ELSE IF graded_only /\ b2.raised THEN Raise(b1.fetched \cup a1.fetched \cup b2.fetched)
        ELSE IF graded_only /\ a2.raised
             THEN Raise(b1.fetched \cup a1.fetched \cup b2.fetched \cup a2.fetched)
        ELSE [raised |-> FALSE,
              result |-> [total_number |-> Len(ga.assignments),
                          total_visible |-> Len(vis),
                          assignments_with_dates_before_start |-> before,
                          assignments_with_dates_after_end |-> Dedupe(before, after)],
              fetched |-> treeFetches \cup b1.fetched \cup a1.fetched
                              \cup (IF graded_only THEN b2.fetched \cup a2.fetched ELSE {})]

\* ------------------------------------------------------------ the handler
\* a store fetch, recorded against the state of the bulk_operations scope
Fetch(kinds) ==
    fetches' = IF bulk.held THEN [fetches EXCEPT !.inside = @ \cup kinds]
               ELSE [fetches EXCEPT !.outside = @ \cup kinds]

\* "with store.bulk_operations(course_key):" entered
BulkEnter ==
    /\ pc = "start"
    /\ bulk' = [bulk EXCEPT !.held = TRUE, !.acquired = @ + 1]
    /\ pc' = "get_course"
    /\ UNCHANGED <<request, store, fetches, depth, course, response, error, status>>

\* course = store.get_course(course_key, depth=...)
GetCourse ==
    /\ pc = "get_course"
    /\ depth' = required_course_depth(request)
    /\ course' = IF store.exists THEN "obj" ELSE "None"
    /\ Fetch({"course"})
    /\ pc' = "init_response"
    /\ UNCHANGED <<request, store, bulk, response, error, status>>

\* response = dict(is_self_paced=course.self_paced)
InitResponse ==
    /\ pc = "init_response"
    /\ IF course = "None"
       THEN /\ error' = "AttributeError"
            /\ pc' = "exit"
            /\ UNCHANGED response
       ELSE /\ response' = [response EXCEPT !.keys = {"is_self_paced"},
                                            !.is_self_paced = store.self_paced]
            /\ pc' = "dates"
            /\ UNCHANGED error
    /\ UNCHANGED <<request, store, bulk, fetches, depth, course, status>>

\* if get_bool_param(request, 'dates', all_requested): response.update(dates=...)
DatesStep ==
    /\ pc = "dates"
    /\ response' = IF Requested(request, "dates")
                   THEN [response EXCEPT !.keys = @ \cup {"dates"},
                                         !.dates = dates_validation(store)]
                   ELSE response
    /\ pc' = "assignments"
    /\ UNCHANGED <<request, store, bulk, fetches, depth, course, error, status>>

\* if get_bool_param(request, 'assignments', all_requested): ...
AssignmentsStep ==
    /\ pc = "assignments"
    /\ IF Requested(request, "assignments")
       THEN LET r == assignments_validation(store, request)
            IN  /\ Fetch(r.fetched)
                /\ IF r.raised
                   THEN /\ error' = "ValueError"
                        /\ pc' = "exit"
                        /\ UNCHANGED response
                   ELSE /\ response' = [response EXCEPT !.keys = @ \cup {"assignments"},
                                                        !.assignments = r.result]
                        /\ pc' = "grades"
                        /\ UNCHANGED error
       ELSE /\ pc' = "grades"
            /\ UNCHANGED <<response, error, fetches>>
    /\ UNCHANGED <<request, store, bulk, depth, course, status>>

\* if get_bool_param(request, 'grades', all_requested): ...
GradesStepUnconditional ==
    /\ pc = "grades"
    /\ response' = [response EXCEPT !.keys = @ \cup {"grades"}]
    /\ pc' = "certificates"
    /\ UNCHANGED <<request, store, bulk, fetches, depth, course, error, status>>
GradesStep ==
    /\ pc = "grades"
    /\ response' = IF Requested(request, "grades")
                   THEN [response EXCEPT !.keys = @ \cup {"grades"}]
                   ELSE response
    /\ pc' = "certificates"
    /\ UNCHANGED <<request, store, bulk, fetches, depth, course, error, status>>

\* if get_bool_param(request, 'certificates', all_requested): ...
CertificatesStep ==
    /\ pc = "certificates"
    /\ response' = IF Requested(request, "certificates")
                   THEN [response EXCEPT !.keys = @ \cup {"certificates"}]
                   ELSE response
    /\ pc' = "updates"
    /\ UNCHANGED <<request, store, bulk, fetches, depth, course, error, status>>

\* if get_bool_param(request, 'updates', all_requested): ... get_course_updates
UpdatesStep ==
    /\ pc = "updates"
    /\ IF Requested(request, "updates")
       THEN /\ response' = [response EXCEPT !.keys = @ \cup {"updates"}]
            /\ Fetch({"updates"})
       ELSE UNCHANGED <<response, fetches>>
    /\ pc' = "exit"
    /\ UNCHANGED <<request, store, bulk, depth, course, error, status>>

\* the with block is left, normally or by an exception
BulkExitOnSuccessOnly ==
    /\ pc = "exit"
    /\ bulk' = IF error = "none"
               THEN [bulk EXCEPT !.held = FALSE, !.released = @ + 1]
               ELSE bulk
    /\ pc' = "return"
    /\ UNCHANGED <<request, store, fetches, depth, course, response, error, status>>
BulkExit ==
    /\ pc = "exit"
    /\ bulk' = [bulk EXCEPT !.held = FALSE, !.released = @ + 1]
    /\ pc' = "return"
    /\ UNCHANGED <<request, store, fetches, depth, course, response, error, status>>

\* return Response(response), or the exception leaves the view
Return ==
    /\ pc = "return"
    /\ status' = IF error = "none" THEN 200 ELSE 500
    /\ pc' = "done"
    /\ UNCHANGED <<request, store, bulk, fetches, depth, course, response, error>>

Next ==
    \/ BulkEnter
    \/ GetCourse
    \/ InitResponse
    \/ DatesStep
    \/ AssignmentsStep
    \/ GradesStep
    \/ CertificatesStep
    \/ UpdatesStep
    \/ BulkExit
    \/ Return

\* ------------------------------------------------- store contents drawn
Ora(g, ss, sd, ras) ==
    [isOra |-> TRUE, graded |-> g, submission_start |-> ss, submission_due |-> sd,
     rubric_assessments |-> ras]

\* a component of another type (its usage key has no 'type@openassessment')
Html ==
    [isOra |-> FALSE, graded |-> FALSE, submission_start |-> NoneTs,
     submission_due |-> NoneTs, rubric_assessments |-> <<>>]

Rubrics == [start : TsVals, due : TsVals]

\* graded components with every combination of window timestamps
RichOras ==
    {Ora(TRUE, ss, sd, ras) :
        ss \in TsVals, sd \in TsVals, ras \in SeqsUpTo(Rubrics, MaxRubric)}

\* components with a submission start only, graded or not
SimpleOras ==
    {Ora(g, ss, NoneTs, <<>>) : g \in BOOLEAN, ss \in TsVals \cup {IsoTs(2)}}

\* the verticals of an assignment: none, one vertical with at most one
\* component, or two verticals with one simple component each
VerticalLists ==
    {<<>>, << <<>> >>, << <<Html>> >>}
        \cup {<< <<o>> >> : o \in RichOras}
        \cup {<< <<o1>>, <<o2>> >> : o1 \in SimpleOras, o2 \in SimpleOras}

DueVals == {NoneDt} \cup {Dt(t) : t \in Times}

Assignment(name, staff, due, verts) ==
    [display_name |-> name, visible_to_staff_only |-> staff, due |-> due, verticals |-> verts]

Section(staff, hide, ch) ==
    [visible_to_staff_only |-> staff, hide_from_toc |-> hide, children |-> ch]

\* a course whose start is still the default has start = DEFAULT_START_DATE,
\* later than every other date
Store(exists, unset, end, ch, secs, asgs) ==
    [exists |-> exists, self_paced |-> FALSE,
     start_date_is_still_default |-> unset,
     start |-> IF unset THEN Dt(MaxTime) ELSE Dt(2),
     end |-> end, children |-> ch, sections |-> secs, assignments |-> asgs]

PlainAssignments ==
    [a \in AssignmentIds |-> Assignment(a, FALSE, NoneDt, <<>>)]

EmptyResponse ==
    [keys |-> {}, is_self_paced |-> FALSE,
     dates |-> [has_start_date |-> FALSE, has_end_date |-> FALSE],
     assignments |-> NoAssignments]

InitHandler ==
    /\ pc = "start"
    /\ bulk = [held |-> FALSE, acquired |-> 0, released |-> 0]
    /\ fetches = [inside |-> {}, outside |-> {}]
    /\ depth = -1
    /\ course = "unset"
    /\ response = EmptyResponse
    /\ error = "none"
    /\ status = 0

\* the request of the tree and open-response specifications: ?assignments=true
\* with graded_only given or not
AssignmentsRequest(graded) ==
    [p \in ParamNames |->
        IF p = "assignments" THEN "true"
        ELSE IF p = "graded_only" THEN graded
        ELSE "absent"]

\* --- Spec: every combination of query parameters, against a missing course
\* and against courses with one section and two assignments, one of them
\* with or without a malformed open-response timestamp
FlagStores ==
    {Store(ex, FALSE, Dt(2), <<"s1">>,
           [s \in SectionIds |-> Section(FALSE, FALSE, <<"a1", "a2">>)],
           [PlainAssignments EXCEPT !["a1"].due = d, !["a1"].verticals = v]) :
        ex \in BOOLEAN, d \in {Dt(1), Dt(MaxTime)},
        v \in {<<>>, << <<Ora(TRUE, BadTs, NoneTs, <<>>)>> >>}}

Init ==
    /\ request \in [ParamNames -> ParamVals]
    /\ store \in FlagStores
    /\ InitHandler

Spec == Init /\ [][Next]_vars

\* --- SpecTree: every tree of two sections over two assignments
TreeSections ==
    [SectionIds -> {Section(st, h, ch) :
        st \in BOOLEAN, h \in BOOLEAN, ch \in SeqsUpTo(AssignmentIds, MaxChildren)}]

TreeAssignments ==
    {[a \in AssignmentIds |-> Assignment(a, staff[a], due[a], <<>>)] :
        staff \in [AssignmentIds -> BOOLEAN],
        due \in [AssignmentIds -> {NoneDt, Dt(MaxTime)}]}

InitTree ==
    /\ request = AssignmentsRequest("absent")
    /\ \E unset \in BOOLEAN, end \in {NoneDt, Dt(2)},
          secs \in TreeSections, asgs \in TreeAssignments :
            store = Store(TRUE, unset, end, <<"s1", "s2">>, secs, asgs)
    /\ InitHandler

SpecTree == InitTree /\ [][Next]_vars

\* --- SpecOra: one visible assignment with every open-response content
InitOra ==
    /\ \E graded \in {"absent", "true"} : request = AssignmentsRequest(graded)
    /\ \E unset \in BOOLEAN, end \in {NoneDt, Dt(2)}, due \in DueVals,
          verts \in VerticalLists :
            store = Store(TRUE, unset, end, <<"s1">>,
                          [s \in SectionIds |-> Section(FALSE, FALSE, <<"a1">>)],
                          [PlainAssignments EXCEPT !["a1"].due = due,
                                                   !["a1"].verticals = verts])
    /\ InitHandler

SpecOra == InitOra /\ [][Next]_vars

\* ====================================================== properties
Done == pc = "done"
Returned == status = 200
AssignmentsRan == Returned /\ "assignments" \in response.keys
Result == response.assignments
BeforeIds ==
    {Result.assignments_with_dates_before_start[i].id :
        i \in 1..Len(Result.assignments_with_dates_before_start)}
AfterIds ==
    {Result.assignments_with_dates_after_end[i].id :
        i \in 1..Len(Result.assignments_with_dates_after_end)}
GradedOnly == request["graded_only"] = "true"
StartSet == ~store.start_date_is_still_default
EndSet == ~store.end.isNone

\* positions <<i, j>> of the children of the sections of the course
Positions ==
    {<<i, j>> \in (1..Len(store.children)) \X (1..MaxChildren + 1) :
        j <= Len(store.sections[store.children[i]].children)}
ChildAt(pos) == store.sections[store.children[pos[1]]].children[pos[2]]
VisiblePositions ==
    {pos \in Positions :
        /\ ~store.sections[store.children[pos[1]]].visible_to_staff_only
        /\ ~store.sections[store.children[pos[1]]].hide_from_toc
        /\ ~store.assignments[ChildAt(pos)].visible_to_staff_only}
VisibleIds == {ChildAt(pos) : pos \in VisiblePositions}

\* the open-response components under an assignment, and their timestamps
OrasOf(aid) == get_open_responses(store.assignments[aid])
TsOf(ora) ==
    {ora.submission_start, ora.submission_due}
        \cup {ora.rubric_assessments[k].start : k \in 1..Len(ora.rubric_assessments)}
        \cup {ora.rubric_assessments[k].due : k \in 1..Len(ora.rubric_assessments)}
DueBeforeStart(aid) ==
    ~store.assignments[aid].due.isNone /\ store.assignments[aid].due.t < store.start.t
DueAfterEnd(aid) ==
    ~store.assignments[aid].due.isNone /\ store.assignments[aid].due.t > store.end.t
\* some open-response component (graded, if gradedOnly) has a window
\* timestamp strictly before the course start
OraWindowBeforeStart(aid, gradedOnly) ==
    \E k \in 1..Len(OrasOf(aid)) :
        /\ gradedOnly => OrasOf(aid)[k].graded
        /\ \E ts \in TsOf(OrasOf(aid)[k]) : ts.kind = "iso" /\ ts.t < store.start.t

\* C1: with the start date set and graded_only false, the before-start list
\* holds exactly the visible assignments with a due date before the start or
\* an open-response window timestamp before the start.
C1_BeforeStartExact ==
    (AssignmentsRan /\ StartSet /\ ~GradedOnly) =>
        BeforeIds = {aid \in VisibleIds :
                        DueBeforeStart(aid) \/ OraWindowBeforeStart(aid, FALSE)}

\* C2: with graded_only true, an assignment whose due date is not before the
\* start and none of whose graded open-response components has a window
\* before the start is not in the before-start list.
C2_GradedFilterExcludes ==
    (AssignmentsRan /\ StartSet /\ GradedOnly) =>
        \A aid \in VisibleIds :
            (~DueBeforeStart(aid) /\ ~OraWindowBeforeStart(aid, TRUE)) => aid \notin BeforeIds

C4_KeySet ==
    Returned =>
        response.keys = {"is_self_paced"}
            \cup {c \in Categories : request["all"] = "true" \/ request[c] = "true"}
C4_Witness ==
    /\ Returned
    /\ response.keys = {"is_self_paced", "grades"}

\* C5: after de-duplication no id is in both lists; the before-start list is
\* the one the comprehension built and the after-end list only lost entries.
C5_NoIdInBoth ==
    AssignmentsRan =>
        LET vis == get_assignments(store).visible_assignments
            b == BeforeList(store, vis, GradedOnly).items
            a == AfterList(store, vis, GradedOnly).items
        IN  /\ BeforeIds \cap AfterIds = {}
            /\ Result.assignments_with_dates_before_start = b
            /\ Len(Result.assignments_with_dates_after_end) <= Len(a)
            /\ \A i \in 1..Len(a) :
                   a[i].id \notin BeforeIds =>
                       \E j \in 1..Len(Result.assignments_with_dates_after_end) :
                           Result.assignments_with_dates_after_end[j] = a[i]
C5_Witness ==
    /\ AssignmentsRan
    /\ Cardinality(VisiblePositions) > Cardinality(VisibleIds)
    /\ LET vis == get_assignments(store).visible_assignments
           a == AfterList(store, vis, GradedOnly).items
       IN  /\ Len(a) >= 3
           /\ \E i, j \in 1..Len(a) : i # j /\ a[i].id = a[j].id /\ a[i].id \in BeforeIds
           /\ Len(Result.assignments_with_dates_after_end) < Len(a)

\* C6: with no start date set the before-start list is empty, and with no
\* end date set the after-end list is empty.
C6_UnsetBoundaryEmpty ==
    AssignmentsRan =>
        /\ ~StartSet => Result.assignments_with_dates_before_start = <<>>
        /\ ~EndSet => Result.assignments_with_dates_after_end = <<>>
C6_Witness ==
    /\ AssignmentsRan
    /\ ~StartSet
    /\ GradedOnly
    /\ \E aid \in VisibleIds : DueBeforeStart(aid) /\ OraWindowBeforeStart(aid, TRUE)
    /\ Result.assignments_with_dates_before_start = <<>>

\* C7: total_number counts every child of every section, total_visible the
\* children that are not staff-only in sections neither staff-only nor
\* hidden, so total_visible <= total_number.
C7_Totals ==
    AssignmentsRan =>
        /\ Result.total_number = Cardinality(Positions)
        /\ Result.total_visible = Cardinality(VisiblePositions)
        /\ Result.total_visible <= Result.total_number
C7_Witness ==
    /\ AssignmentsRan
    /\ Result.total_visible > 0
    /\ Result.total_visible < Result.total_number
    /\ \E pos \in Positions :
           /\ ~store.sections[store.children[pos[1]]].visible_to_staff_only
           /\ ~store.sections[store.children[pos[1]]].hide_from_toc
           /\ store.assignments[ChildAt(pos)].visible_to_staff_only

\* C8: a request for a course the store does not have ends with HTTP 404.
C8_MissingCourseIs404 ==
    (Done /\ ~store.exists) => status = 404

\* the flattened timestamps of the components under an assignment, in the
\* order the checks read them
FieldsOf(aid) == AllFields(OrasOf(aid))
Beyond(ts, before) ==
    /\ ts.kind = "iso"
    /\ IF before THEN ts.t < store.start.t ELSE ts.t > store.end.t
HasMalformed(aid) == \E k \in 1..Len(FieldsOf(aid)) : FieldsOf(aid)[k].kind = "bad"
\* a malformed timestamp that the check of one boundary reads: the due date
\* does not settle the condition and no timestamp read before it does
ReadsMalformed(aid, before) ==
    /\ IF before THEN StartSet /\ ~DueBeforeStart(aid) ELSE EndSet /\ ~DueAfterEnd(aid)
    /\ \E k \in 1..Len(FieldsOf(aid)) :
           /\ FieldsOf(aid)[k].kind = "bad"
           /\ \A j \in 1..(k - 1) : ~Beyond(FieldsOf(aid)[j], before)

C10_BulkScope ==
    /\ bulk.acquired <= 1
    /\ bulk.released <= bulk.acquired
    /\ bulk.held <=> (bulk.acquired = 1 /\ bulk.released = 0)
    /\ fetches.outside = {}
    /\ course # "unset" => "course" \in fetches.inside
    /\ status # 0 => (bulk.acquired = 1 /\ bulk.released = 1 /\ ~bulk.held)
C10_Witness ==
    /\ Done
    /\ error = "ValueError"
    /\ bulk.released = 1
    /\ {"course", "sections", "assignments", "units", "components"} \subseteq fetches.inside

====
